---- MODULE Spec2Model ----
(***************************************************************************)
(* Model of go_work/mockgen/main.go: the mock-data generator.  One process *)
(* invocation runs main(), which calls generateMockData(config); the       *)
(* filesystem below the base directory persists between invocations.       *)
(* Paths and file contents are sequences of tokens: "/" is the path        *)
(* separator, "." the extension dot, "," and "\"" the CSV comma and quote. *)
(***************************************************************************)
EXTENDS Integers, Sequences, FiniteSets, TLC

VARIABLES
  run,      \* number of the process invocation, 0 before the first
  pc,       \* position of the process in main / generateMockData
  cfg,      \* the Config passed to generateMockData
  i,        \* loop index
  fs,       \* the entries at and below the base path
  open,     \* paths of the open file handles
  defers,   \* deferred calls of the running writer, last deferred last
  frame,    \* arguments of the running writeCSVFile / writeImageFile call
  ops,      \* filesystem calls generateMockData has made, in order
  stdout,   \* lines printed by the process
  err,      \* the error generateMockData returns
  exitCode, \* exit status of the process, -1 while it runs
  faults    \* file-level I/O failures injected into this invocation

vars == <<run, pc, cfg, i, fs, open, defers, frame, ops, stdout, err, exitCode,
          faults>>

\* ---------------------------------------------------------------- bounds
MaxText == 2
MaxCsv == 1
MaxImage == 1
MaxSubDirs == 2
MaxFaults == 1
MaxRuns == 2

\* ------------------------------------------------------ program constants
Rows == 100
PhotoWidth == 640
PhotoHeight == 480
ThumbSize == 100

BaseDir == <<".", ".", "/", ".", ".", "/", "mock_data">>

Header == << <<"UserID">>, <<"Timestamp">>, <<"Amount">>, <<"Description">> >>

\* ------------------------------------------------------------------ paths
Join(dir, name) == dir \o <<"/">> \o name

\* the index left out of the name
TextPathNoIndex(k) == Join(BaseDir, <<"document_", ".", "txt">>)

TextPath(k) == Join(BaseDir, <<"document_", ToString(k), ".", "txt">>)

CsvPath(k) == Join(BaseDir, <<"transactions_", ToString(k), ".", "csv">>)

PhotoPath(k) == Join(BaseDir, <<"photo_", ToString(k), ".", "jpg">>)

SubDirPath(k) == Join(BaseDir, <<"internal_data_", ToString(k)>>)

NotePath(k) == Join(SubDirPath(k), <<"secret_note", ".", "md">>)

ThumbPath(k) == Join(SubDirPath(k), <<"thumb", ".", "png">>)

RECURSIVE ExtFrom(_, _)
ExtFrom(path, k) ==
  IF k = 0 THEN <<>>
  ELSE IF path[k] = "/" THEN <<>>
  ELSE IF path[k] = "." THEN SubSeq(path, k, Len(path))
  ELSE ExtFrom(path, k - 1)

\* the extension without its dot
ExtNoDot(path) == <<path[Len(path)]>>

Ext(path) == ExtFrom(path, Len(path))

IsPrefix(p, q) == IF Len(p) <= Len(q) THEN SubSeq(q, 1, Len(p)) = p ELSE FALSE

\* q is p itself or lies below directory p
AtOrUnder(p, q) ==
  IF IsPrefix(p, q) THEN (IF Len(q) = Len(p) THEN TRUE ELSE q[Len(p) + 1] = "/")
  ELSE FALSE

Under(p, q) == AtOrUnder(p, q) /\ Len(q) > Len(p)

\* ------------------------------------------------------------- filesystem
Dir(path, by) ==
  [path |-> path, kind |-> "dir", by |-> by, enc |-> "none", w |-> 0, h |-> 0,
   lines |-> 0, hdr |-> FALSE, fields |-> {}, complete |-> TRUE]

File(path, by, enc, complete) ==
  [path |-> path, kind |-> "file", by |-> by, enc |-> enc, w |-> 0, h |-> 0,
   lines |-> 0, hdr |-> FALSE, fields |-> {}, complete |-> complete]

Paths(tree) == {e.path : e \in tree}

Put(tree, e) == {x \in tree : x.path # e.path} \cup {e}

IsDir(tree, path) == \E e \in tree : e.path = path /\ e.kind = "dir"

IsFile(tree, path) == \E e \in tree : e.path = path /\ e.kind = "file"

\* what the base path may hold before the first invocation
InitialTrees ==
  { {},
    {File(BaseDir, 0, "text", TRUE)},
    {Dir(BaseDir, 0)},
    {Dir(BaseDir, 0), File(Join(BaseDir, <<"old", ".", "dat">>), 0, "text", TRUE),
     Dir(SubDirPath(0), 0), File(ThumbPath(0), 0, "png", TRUE)} }

\* os.RemoveAll that removes nothing
RemoveAllKeep(tree, path) == tree

\* os.RemoveAll succeeding: the path and everything below it is gone
RemoveAllOk(tree, path) == {e \in tree : ~AtOrUnder(path, e.path)}

\* os.RemoveAll failing on entry u: everything that can be removed is removed,
\* u and the directories leading to it stay
RemoveAllBlocked(tree, path, u) ==
  {e \in tree : ~AtOrUnder(path, e.path) \/ AtOrUnder(e.path, u)}

\* ----------------------------------------------------------------- stdout
Msg(m, arg) == [msg |-> m, arg |-> arg]

\* ------------------------------------------------------------ control flow
Configs ==
  [TextFiles : 0..MaxText, CsvFiles : 0..MaxCsv, ImageFiles : 0..MaxImage,
   SubDirs : 0..MaxSubDirs]

\* position reached when the loop of `phase` is entered with index k:
\* a loop whose condition fails falls through to the next loop
RECURSIVE LoopEntry(_, _, _)
LoopEntry(phase, k, c) ==
  CASE phase = "text" ->
         IF k < c.TextFiles THEN [pc |-> "text", i |-> k]
         ELSE LoopEntry("csv", 0, c)
    [] phase = "csv" ->
         IF k < c.CsvFiles THEN [pc |-> "csv", i |-> k]
         ELSE LoopEntry("image", 0, c)
    [] phase = "image" ->
         IF k < c.ImageFiles THEN [pc |-> "image", i |-> k]
         ELSE LoopEntry("subdir", 0, c)
    [] phase = "subdir" ->
         IF k < c.SubDirs THEN [pc |-> "subdir", i |-> k]
         ELSE [pc |-> "return", i |-> k]

\* os.MkdirAll: a directory already there is left alone
MkdirAll(tree, path, by) == IF IsDir(tree, path) THEN tree ELSE tree \cup {Dir(path, by)}

\* outcomes of writing a whole file, and of writing into an open one
WriteOutcomes == {"ok", "nocreate", "partial"}

CreateOutcomes == {"ok", "nocreate"}

BodyOutcomes == {"ok", "partial"}

\* os.WriteFile followed by the logging of writeTextFile
writeTextFile(tree, out, path, o, by) ==
  [fs |-> CASE o = "ok" -> Put(tree, File(path, by, "text", TRUE))
            [] o = "partial" -> Put(tree, File(path, by, "text", FALSE))
            [] o = "nocreate" -> tree,
   stdout |-> IF o = "ok" THEN out
              ELSE Append(out, Msg("Error writing text file", path))]

\* -------------------------------------------------------------------- CSV
Phrases == << <<"w">>, <<"w", ",", " ", "w">> >>

\* one generated record: UUID, date, "%.2f" amount, hacker phrase
Record(k) ==
  << <<"uuid">>, <<"date">>, <<"n", ".", "nn">>, Phrases[(k % Len(Phrases)) + 1] >>

Contains(field, t) == \E k \in 1..Len(field) : field[k] = t

fieldNeedsQuotes(field) ==
  /\ field # <<>>
  /\ \/ Contains(field, ",") \/ Contains(field, "\"")
     \/ Contains(field, "\n") \/ Contains(field, "\r")
     \/ field[1] = " "

RECURSIVE EscapeQuotes(_)
EscapeQuotes(field) ==
  IF field = <<>> THEN <<>>
  ELSE (IF Head(field) = "\"" THEN <<"\"", "\"">> ELSE <<Head(field)>>)
       \o EscapeQuotes(Tail(field))

EncodeField(field) ==
  IF fieldNeedsQuotes(field) THEN <<"\"">> \o EscapeQuotes(field) \o <<"\"">>
  ELSE field

RECURSIVE EncodeFields(_)
EncodeFields(rec) ==
  IF Len(rec) = 1 THEN EncodeField(rec[1])
  ELSE EncodeField(Head(rec)) \o <<",">> \o EncodeFields(Tail(rec))

\* csv.Writer.Write: the record as one line of the writer's buffer
csvWrite(buf, rec) == Append(buf, EncodeFields(rec) \o <<"\n">>)

\* the loop `for range rows`: one csv.Writer.Write per generated record
WriteRows(buf, n) == buf \o [k \in 1..n |-> csvWrite(<<>>, Record(k))[1]]

\* the writer's buffer when writeCSVFile returns: the header and the rows
Buffered == WriteRows(csvWrite(<<>>, Header), Rows)

\* number of fields a CSV reader finds in one line
RECURSIVE CountFields(_, _, _)
CountFields(line, k, inQuote) ==
  IF k > Len(line) THEN 1
  ELSE IF line[k] = "\"" THEN CountFields(line, k + 1, ~inQuote)
  ELSE IF line[k] = "," /\ ~inQuote THEN 1 + CountFields(line, k + 1, inQuote)
  ELSE CountFields(line, k + 1, inQuote)

NumFields(line) == CountFields(line, 1, FALSE)

\* number of line terminators in the content
CountNewlines(content) ==
  Cardinality({p \in UNION {{k} \X (1..Len(content[k])) : k \in 1..Len(content)} :
                 content[p[1]][p[2]] = "\n"})

\* what a reader finds in the file once the first n buffered lines reached it
Flushed ==
  [n \in 0..Len(Buffered) |->
     LET content == SubSeq(Buffered, 1, n)
     IN [lines |-> CountNewlines(content),
         hdr |-> (content # <<>> /\ content[1] = EncodeFields(Header) \o <<"\n">>),
         fields |-> {NumFields(content[k]) : k \in 2..Len(content)}]]

\* the file after the first n buffered lines reached it
CsvFile(path, by, n) ==
  [File(path, by, "csv", n = Len(Buffered)) EXCEPT
     !.lines = Flushed[n].lines, !.hdr = Flushed[n].hdr, !.fields = Flushed[n].fields]

\* how many buffered lines the disk takes when a flush fails part-way
FlushCuts == {0, 1, Rows \div 2}

\* --------------------------------------------------------------- images
\* the encoder writeImageFile picks for a path
Encoder(path) == IF Ext(path) = <<".", "png">> THEN "png" ELSE "jpeg"

ImageFile(path, by, w, h, complete) ==
  [File(path, by, Encoder(path), complete) EXCEPT !.w = w, !.h = h]

NoFrame == [path |-> <<>>, w |-> 0, h |-> 0, ret |-> "none"]

\* where generateMockData continues when a writer call returns
ReturnTo(ret, k, c) ==
  CASE ret = "csv" -> LoopEntry("csv", k + 1, c)
    [] ret = "image" -> LoopEntry("image", k + 1, c)
    [] ret = "thumb" -> LoopEntry("subdir", k + 1, c)

\* a failed os.Create ends generateMockData
OnCreateErrorAbort(ret, k, c) == [pc |-> "return", i |-> k]

\* position after a failed os.Create in a writer: the writer logs and returns,
\* the loop of generateMockData goes on
OnCreateError(ret, k, c) == ReturnTo(ret, k, c)

\* file.Close left out
CloseHandleLeak(handles, path) == handles

\* file.Close
CloseHandle(handles, path) == handles \ {path}

\* the note left out of the subdirectory body
MkdirSubNextThumb(ok) == IF ok THEN "thumb" ELSE "return"

\* the deferred call to run next: last deferred, first run
NextDeferred(d) == d[Len(d)]

\* the deferred calls of a returning writer: writer.Flush moves the first
\* `cut` buffered lines into the file if its handle is still open, file.Close
\* releases the handle
RECURSIVE RunDefers(_, _, _, _, _, _)
RunDefers(stack, tree, handles, path, cut, by) ==
  IF stack = <<>> THEN [fs |-> tree, open |-> handles]
  ELSE IF NextDeferred(stack) = "flush"
  THEN RunDefers(SubSeq(stack, 1, Len(stack) - 1),
                 IF path \in handles THEN Put(tree, CsvFile(path, by, cut)) ELSE tree,
                 handles, path, cut, by)
  ELSE RunDefers(SubSeq(stack, 1, Len(stack) - 1), tree,
                 CloseHandle(handles, path), path, cut, by)

\* position after os.MkdirAll(subDir): the error is returned
MkdirSubNext(ok) == IF ok THEN "note" ELSE "return"

\* position after os.MkdirAll(cfg.BaseDir)
MkdirBaseNext(ok, c) ==
  IF ok THEN LoopEntry("text", 0, c) ELSE [pc |-> "return", i |-> 0]

\* the error of os.RemoveAll dropped
RemoveNextIgnore(ok) == "mkbase"

\* position after os.RemoveAll(cfg.BaseDir)
RemoveNext(ok) == IF ok THEN "mkbase" ELSE "return"

\* exit status 0 whatever generateMockData returned
ExitCodeZero(e) == 0

\* main's exit status
ExitCode(e) == IF e # "nil" THEN 1 ELSE 0

Op(o, path) == [op |-> o, path |-> path]

NoCounts == [TextFiles |-> 0, CsvFiles |-> 0, ImageFiles |-> 0, SubDirs |-> 0]

Init ==
  /\ run = 0
  /\ pc = "exited"
  /\ cfg = NoCounts
  /\ i = 0
  /\ fs \in InitialTrees
  /\ open = {}
  /\ defers = <<>>
  /\ frame = NoFrame
  /\ ops = <<>>
  /\ stdout = <<>>
  /\ err = "nil"
  /\ exitCode = 0
  /\ faults = 0

\* a process is started: main prints the banner and calls generateMockData.
\* Only cfg.BaseDir is used before the loops; the counts are drawn where the
\* first loop reads them (MkdirBase)
Start ==
  /\ pc = "exited"
  /\ run < MaxRuns
  /\ run' = run + 1
  /\ cfg' = NoCounts
  /\ stdout' = <<Msg("Generating Mock Data", BaseDir)>>
  /\ pc' = "remove"
  /\ i' = 0
  /\ ops' = <<>>
  /\ err' = "nil"
  /\ exitCode' = -1
  /\ faults' = 0
  /\ UNCHANGED <<fs, open, defers, frame>>

\* os.RemoveAll(cfg.BaseDir): it fails with nothing removed, or with the
\* base directory emptied but not removable itself
RemoveBase ==
  /\ pc = "remove"
  /\ ops' = Append(ops, Op("RemoveAll", BaseDir))
  /\ \E ok \in BOOLEAN :
       /\ pc' = RemoveNext(ok)
       /\ IF ok
          THEN fs' = RemoveAllOk(fs, BaseDir) /\ err' = err
          ELSE /\ \E emptied \in BOOLEAN :
                    fs' = IF emptied THEN RemoveAllBlocked(fs, BaseDir, BaseDir)
                          ELSE fs
               /\ err' = "remove: permission denied"
  /\ UNCHANGED <<run, cfg, i, open, defers, frame, stdout, exitCode, faults>>

\* os.MkdirAll(cfg.BaseDir, 0755), then the entry into the first loop
MkdirBase ==
  /\ pc = "mkbase"
  /\ ops' = Append(ops, Op("MkdirAll", BaseDir))
  /\ \E ok \in BOOLEAN :
       /\ ok => ~IsFile(fs, BaseDir)
       /\ IF ok
          THEN /\ fs' = MkdirAll(fs, BaseDir, run)
               /\ err' = err
               /\ cfg' \in Configs
          ELSE fs' = fs /\ err' = "mkdir: permission denied" /\ cfg' = cfg
       /\ pc' = MkdirBaseNext(ok, cfg').pc
       /\ i' = MkdirBaseNext(ok, cfg').i
  /\ UNCHANGED <<run, open, defers, frame, stdout, exitCode, faults>>

\* a writeTextFile call of the loop bodies
TextCall(path, next) ==
  /\ ops' = Append(ops, Op("WriteFile", path))
  /\ \E o \in WriteOutcomes :
       /\ o # "ok" => faults < MaxFaults
       /\ faults' = IF o = "ok" THEN faults ELSE faults + 1
       /\ fs' = writeTextFile(fs, stdout, path, o, run).fs
       /\ stdout' = writeTextFile(fs, stdout, path, o, run).stdout
  /\ pc' = next.pc
  /\ i' = next.i
  /\ UNCHANGED <<run, cfg, open, defers, frame, err, exitCode>>

\* loop body: writeTextFile(document_i.txt, paragraph)
WriteText == pc = "text" /\ TextCall(TextPath(i), LoopEntry("text", i + 1, cfg))

\* subdirectory body: writeTextFile(secret_note.md, phrase)
WriteNote == pc = "note" /\ TextCall(NotePath(i), [pc |-> "thumb", i |-> i])

\* writeCSVFile up to the deferral of file.Close
CsvCreate ==
  /\ pc = "csv"
  /\ ops' = Append(ops, Op("Create", CsvPath(i)))
  /\ \E o \in CreateOutcomes :
       IF o = "ok"
       THEN /\ fs' = Put(fs, File(CsvPath(i), run, "none", FALSE))
            /\ open' = open \cup {CsvPath(i)}
            /\ defers' = Append(defers, "close")
            /\ frame' = [path |-> CsvPath(i), w |-> 0, h |-> 0, ret |-> "csv"]
            /\ pc' = "csv_write"
            /\ UNCHANGED <<i, stdout, faults>>
       ELSE /\ faults < MaxFaults
            /\ faults' = faults + 1
            /\ stdout' = Append(stdout, Msg("Error creating CSV file", CsvPath(i)))
            /\ pc' = OnCreateError("csv", i, cfg).pc
            /\ i' = OnCreateError("csv", i, cfg).i
            /\ UNCHANGED <<fs, open, defers, frame>>
  /\ UNCHANGED <<run, cfg, err, exitCode>>

\* writeCSVFile from csv.NewWriter to its return: the deferral of Flush, the
\* header, the rows, then the deferred calls
CsvWrite ==
  /\ pc = "csv_write"
  /\ \E o \in BodyOutcomes :
       /\ o # "ok" => faults < MaxFaults
       /\ faults' = IF o = "ok" THEN faults ELSE faults + 1
       /\ \E cut \in (IF o = "ok" THEN {Len(Buffered)} ELSE FlushCuts) :
            LET r == RunDefers(Append(defers, "flush"), fs, open, frame.path, cut, run)
            IN fs' = r.fs /\ open' = r.open
  /\ defers' = <<>>
  /\ frame' = NoFrame
  /\ pc' = ReturnTo(frame.ret, i, cfg).pc
  /\ i' = ReturnTo(frame.ret, i, cfg).i
  /\ UNCHANGED <<run, cfg, ops, stdout, err, exitCode>>

\* writeImageFile up to the deferral of file.Close
ImageCall(path, w, h, ret) ==
  /\ ops' = Append(ops, Op("Create", path))
  /\ \E o \in CreateOutcomes :
       IF o = "ok"
       THEN /\ fs' = Put(fs, File(path, run, "none", FALSE))
            /\ open' = open \cup {path}
            /\ defers' = Append(defers, "close")
            /\ frame' = [path |-> path, w |-> w, h |-> h, ret |-> ret]
            /\ pc' = "img_encode"
            /\ UNCHANGED <<i, stdout, faults>>
       ELSE /\ faults < MaxFaults
            /\ faults' = faults + 1
            /\ stdout' = Append(stdout, Msg("Error creating image file", path))
            /\ pc' = OnCreateError(ret, i, cfg).pc
            /\ i' = OnCreateError(ret, i, cfg).i
            /\ UNCHANGED <<fs, open, defers, frame>>
  /\ UNCHANGED <<run, cfg, err, exitCode>>

\* loop body: writeImageFile(photo_i.jpg, 640, 480)
ImageCreate ==
  pc = "image" /\ ImageCall(PhotoPath(i), PhotoWidth, PhotoHeight, "image")

\* subdirectory body: writeImageFile(thumb.png, 100, 100)
ThumbCreate ==
  pc = "thumb" /\ ImageCall(ThumbPath(i), ThumbSize, ThumbSize, "thumb")

\* writeImageFile from the encoding to its return: png.Encode or jpeg.Encode,
\* result ignored, then the deferred calls
ImageEncode ==
  /\ pc = "img_encode"
  /\ \E o \in BodyOutcomes :
       /\ o # "ok" => faults < MaxFaults
       /\ faults' = IF o = "ok" THEN faults ELSE faults + 1
       /\ LET r == RunDefers(defers,
                             Put(fs, ImageFile(frame.path, run, frame.w, frame.h,
                                               o = "ok")),
                             open, frame.path, 0, run)
          IN fs' = r.fs /\ open' = r.open
  /\ defers' = <<>>
  /\ frame' = NoFrame
  /\ pc' = ReturnTo(frame.ret, i, cfg).pc
  /\ i' = ReturnTo(frame.ret, i, cfg).i
  /\ UNCHANGED <<run, cfg, ops, stdout, err, exitCode>>

\* os.MkdirAll(subDir, 0755)
MkdirSub ==
  /\ pc = "subdir"
  /\ ops' = Append(ops, Op("MkdirAll", SubDirPath(i)))
  /\ \E ok \in BOOLEAN :
       /\ ok => ~IsFile(fs, SubDirPath(i))
       /\ pc' = MkdirSubNext(ok)
       /\ IF ok
          THEN fs' = MkdirAll(fs, SubDirPath(i), run) /\ err' = err
          ELSE fs' = fs /\ err' = "mkdir: permission denied"
  /\ UNCHANGED <<run, cfg, i, open, defers, frame, stdout, exitCode, faults>>

\* generateMockData returns to main, which reports and exits
Return ==
  /\ pc = "return"
  /\ stdout' = Append(stdout, IF err # "nil" THEN Msg("FATAL Error", <<err>>)
                              ELSE Msg("Generation Complete", <<>>))
  /\ exitCode' = ExitCode(err)
  /\ pc' = "exited"
  /\ UNCHANGED <<run, cfg, i, fs, open, defers, frame, ops, err, faults>>

Next ==
  \/ Start
  \/ RemoveBase
  \/ MkdirBase
  \/ WriteText
  \/ CsvCreate
  \/ CsvWrite
  \/ ImageCreate
  \/ ImageEncode
  \/ MkdirSub
  \/ WriteNote
  \/ ThumbCreate
  \/ Return

Spec == Init /\ [][Next]_vars

\* ------------------------------------------------------------- vocabulary
DirectlyUnder(dir, q) ==
  IF Under(dir, q) THEN \A k \in (Len(dir) + 2)..Len(q) : q[k] # "/" ELSE FALSE

FilesIn(tree, dir) ==
  {e.path : e \in {x \in tree : x.kind = "file" /\ DirectlyUnder(dir, x.path)}}

DirsIn(tree, dir) ==
  {e.path : e \in {x \in tree : x.kind = "dir" /\ DirectlyUnder(dir, x.path)}}

TopFiles(c) ==
  {TextPath(k) : k \in 0..(c.TextFiles - 1)}
    \cup {CsvPath(k) : k \in 0..(c.CsvFiles - 1)}
    \cup {PhotoPath(k) : k \in 0..(c.ImageFiles - 1)}

SubDirSet(c) == {SubDirPath(k) : k \in 0..(c.SubDirs - 1)}

SubFiles(k) == {NotePath(k), ThumbPath(k)}

ErrorMsgs ==
  {"Error writing text file", "Error creating CSV file", "Error creating image file"}

ErrorLogged(path) ==
  \E k \in 1..Len(stdout) : stdout[k].msg \in ErrorMsgs /\ stdout[k].arg = path

CreateErrorLogged(path) ==
  \E k \in 1..Len(stdout) :
    /\ stdout[k].msg \in {"Error creating CSV file", "Error creating image file"}
    /\ stdout[k].arg = path

Returned == run > 0 /\ pc \in {"return", "exited"}

ReturnedNil == Returned /\ err = "nil"

Total(c) == c.TextFiles + c.CsvFiles + c.ImageFiles

\* ---------------------------------------------------------------------- C1
\* C1 as stated: once generateMockData has returned nil, the base directory
\* holds exactly the T+C+I top-level files and the S subdirectories, each
\* subdirectory holding exactly secret_note.md and thumb.png.
C1_FullLayoutAfterNil ==
  ReturnedNil =>
    /\ FilesIn(fs, BaseDir) = TopFiles(cfg)
    /\ Cardinality(FilesIn(fs, BaseDir)) = Total(cfg)
    /\ DirsIn(fs, BaseDir) = SubDirSet(cfg)
    /\ Cardinality(DirsIn(fs, BaseDir)) = cfg.SubDirs
    /\ \A k \in 0..(cfg.SubDirs - 1) :
         /\ FilesIn(fs, SubDirPath(k)) = SubFiles(k)
         /\ Cardinality(FilesIn(fs, SubDirPath(k))) = 2
         /\ DirsIn(fs, SubDirPath(k)) = {}

\* C1 amended: once generateMockData has returned nil, the base directory
\* holds exactly the S subdirectories and nothing outside the configured
\* layout; of the T+C+I top-level files and the 2 files of each subdirectory
\* exactly those are missing whose creation failed, each reported on standard
\* output, so the layout is complete when no file creation failed.
C1_LayoutUpToLoggedFailures ==
  ReturnedNil =>
    LET top == FilesIn(fs, BaseDir)
        missing == TopFiles(cfg) \ top
    IN /\ top \subseteq TopFiles(cfg)
       /\ \A p \in missing : ErrorLogged(p)
       /\ Cardinality(top) + Cardinality(missing) = Total(cfg)
       /\ DirsIn(fs, BaseDir) = SubDirSet(cfg)
       /\ Cardinality(DirsIn(fs, BaseDir)) = cfg.SubDirs
       /\ \A k \in 0..(cfg.SubDirs - 1) :
            /\ FilesIn(fs, SubDirPath(k)) \subseteq SubFiles(k)
            /\ \A p \in SubFiles(k) \ FilesIn(fs, SubDirPath(k)) : ErrorLogged(p)
            /\ DirsIn(fs, SubDirPath(k)) = {}
            /\ Cardinality(SubFiles(k)) = 2
       /\ \A p \in Paths(fs) : CreateErrorLogged(p) => FALSE
       /\ (\A k \in 1..Len(stdout) : stdout[k].msg \notin ErrorMsgs) =>
            /\ Cardinality(top) = Total(cfg)
            /\ \A k \in 0..(cfg.SubDirs - 1) :
                 Cardinality(FilesIn(fs, SubDirPath(k))) = 2

\* a run that returned nil with one top-level file missing and the rest there
C1_Witness ==
  /\ ReturnedNil
  /\ pc = "exited"
  /\ cfg.TextFiles = 2 /\ cfg.CsvFiles = 1 /\ cfg.ImageFiles = 1 /\ cfg.SubDirs = 2
  /\ Cardinality(FilesIn(fs, BaseDir)) = Total(cfg) - 1
  /\ \A k \in 0..1 : Cardinality(FilesIn(fs, SubDirPath(k))) = 2

\* ---------------------------------------------------------------------- C2
\* C2 as stated: when the second (or a later) run of the generator has ended,
\* every entry at or below the base directory was made by that run; nothing
\* of an earlier run and nothing that was there before survives.
C2_OnlyLastRunSurvives ==
  (run >= 2 /\ pc = "exited") =>
    \A e \in fs : AtOrUnder(BaseDir, e.path) => e.by = run

\* C2 amended: provided the run's removal of the base directory succeeded,
\* every entry at or below the base directory was made by that run, whatever
\* the directory held before and however the run ends.
C2_OnlyThisRunAfterRemoval ==
  (run >= 1 /\ Len(ops) >= 2) =>
    \A e \in fs : AtOrUnder(BaseDir, e.path) => e.by = run

\* a second run that ended with nil and left files of its own
C2_Witness ==
  /\ run = 2 /\ pc = "exited" /\ err = "nil"
  /\ \E e \in fs : e.kind = "file" /\ e.by = 2

\* ---------------------------------------------------------------------- C3
\* C3: when removing the base directory, creating it, or creating a
\* subdirectory fails, generateMockData returns that error at once: the
\* failing call is the last filesystem call of the run, it creates nothing,
\* the returned error is the one raised, and nothing the run had created
\* before is removed.
C3_AbortOnDirectoryError ==
  [][(run' = run /\ err' # "nil") =>
       /\ {e \in fs : e.by = run} \subseteq fs'
       /\ err = "nil" =>
            /\ Len(ops') = Len(ops) + 1
            /\ ops'[Len(ops')].op \in {"RemoveAll", "MkdirAll"}
            /\ fs' \subseteq fs
            /\ pc' = "return"
       /\ err # "nil" =>
            /\ ops' = ops
            /\ fs' = fs
            /\ err' = err
            /\ pc' = "exited"
            /\ exitCode' = 1]_vars

\* a run ended by a failing subdirectory creation, with files written before
C3_Witness ==
  /\ pc = "exited" /\ err # "nil"
  /\ ops[Len(ops)].path = SubDirPath(1)
  /\ \E e \in fs : e.kind = "file" /\ e.by = run /\ e.path = ThumbPath(0)

\* ---------------------------------------------------------------------- C4
ExpectedOps(c) ==
  <<Op("RemoveAll", BaseDir), Op("MkdirAll", BaseDir)>>
    \o [k \in 1..c.TextFiles |-> Op("WriteFile", TextPath(k - 1))]
    \o [k \in 1..c.CsvFiles |-> Op("Create", CsvPath(k - 1))]
    \o [k \in 1..c.ImageFiles |-> Op("Create", PhotoPath(k - 1))]
    \o [k \in 1..(3 * c.SubDirs) |->
          CASE k % 3 = 1 -> Op("MkdirAll", SubDirPath((k - 1) \div 3))
            [] k % 3 = 2 -> Op("WriteFile", NotePath((k - 1) \div 3))
            [] k % 3 = 0 -> Op("Create", ThumbPath((k - 1) \div 3))]

\* C4: whichever file writes or creations fail, the run attempts the files
\* and subdirectories of the configured layout in the order of a failure-free
\* run, and all of them once it has returned nil.
C4_FileFailuresDoNotAbort ==
  /\ run > 0 => IsPrefix(ops, ExpectedOps(cfg))
  /\ ReturnedNil => ops = ExpectedOps(cfg)

\* a run that returned nil after as many file failures as the bound allows
C4_Witness ==
  /\ ReturnedNil
  /\ faults = MaxFaults
  /\ cfg.TextFiles = 2 /\ cfg.CsvFiles = 1 /\ cfg.ImageFiles = 1 /\ cfg.SubDirs = 2
  /\ \E k \in 1..Len(stdout) : stdout[k].msg = "Error creating CSV file"

\* ---------------------------------------------------------------------- C5
\* a directory call of this run failed: the removal (after which the run made
\* no further call) or a MkdirAll whose directory is not there
DirFailed ==
  \/ Len(ops) = 1
  \/ \E k \in 1..Len(ops) : ops[k].op = "MkdirAll" /\ ~IsDir(fs, ops[k].path)

Last(q) == q[Len(q)]

\* C5: generateMockData returns an error, and the process prints a message
\* and exits with status 1, if and only if a directory call failed; otherwise
\* it returns nil and the process exits with status 0, however many file
\* writes failed.
C5_ExitStatusFollowsDirectorySetup ==
  /\ Returned => (err # "nil" <=> DirFailed)
  /\ (run > 0 /\ pc = "exited") =>
       /\ exitCode = (IF DirFailed THEN 1 ELSE 0)
       /\ DirFailed => Last(stdout) = Msg("FATAL Error", <<err>>)
       /\ ~DirFailed =>
            /\ Last(stdout).msg = "Generation Complete"
            /\ \A k \in 1..Len(stdout) : stdout[k].msg # "FATAL Error"
  /\ (run > 0 /\ pc # "exited") => exitCode = -1

\* a process that exited with status 1 after a failed subdirectory creation,
\* file failures having occurred before
C5_Witness ==
  /\ run > 0 /\ pc = "exited" /\ exitCode = 1
  /\ faults >= 1
  /\ Last(ops).op = "MkdirAll" /\ Last(ops).path # BaseDir

\* ---------------------------------------------------------------------- C6
Suffix(path) == SubSeq(path, Len(path) - 1, Len(path))

IsTextOrImage(path) ==
  Suffix(path) \in {<<".", "txt">>, <<".", "md">>, <<".", "jpg">>, <<".", "png">>}

\* the writer call made for `path` has returned
WriterReturned(path) == path \notin open /\ frame.path # path

\* C6 as stated: every text or image file whose write failed (it was not
\* created, or it was created and its content was not written completely) has
\* an error line on standard output once its writer has returned.
C6_WriteFailuresLogged ==
  run > 0 =>
    \A k \in 1..Len(ops) :
      (/\ ops[k].op \in {"WriteFile", "Create"}
       /\ IsTextOrImage(ops[k].path)
       /\ WriterReturned(ops[k].path)
       /\ \/ ops[k].path \notin Paths(fs)
          \/ \E e \in fs : e.path = ops[k].path /\ ~e.complete)
      => ErrorLogged(ops[k].path)

\* ---------------------------------------------------------------------- C7
\* C7 as stated: every CSV file writeCSVFile has written and closed holds
\* exactly Rows + 1 = 101 lines, the header first, then 100 data rows of
\* exactly 4 fields each, everything buffered having reached the file.
C7_CsvHas101Lines ==
  \A e \in fs :
    (/\ e.kind = "file" /\ e.by >= 1
     /\ Suffix(e.path) = <<".", "csv">>
     /\ e.path \notin open)
    => /\ e.lines = 101
       /\ e.hdr
       /\ e.fields = {4}
       /\ e.complete

\* ---------------------------------------------------------------------- C8
\* C8: a handle is open only inside the writer call that opened it, that call
\* holds at most its own handle, and no handle is open between two writer
\* calls, after a failed creation, or when generateMockData has returned.
C8_HandlesReleased ==
  /\ pc \notin {"csv_write", "img_encode"} => open = {}
  /\ open \subseteq {frame.path}
  /\ Returned => open = {}

\* a finished run in which a CSV flush failed after the file had been created
\* and a thumbnail was written
C8_Witness ==
  /\ pc = "exited" /\ err = "nil" /\ open = {}
  /\ \E e \in fs : e.by = run /\ Suffix(e.path) = <<".", "csv">> /\ ~e.complete
  /\ \E e \in fs : e.by = run /\ Suffix(e.path) = <<".", "png">> /\ e.complete

\* ---------------------------------------------------------------------- C9
\* C9: every closed photo_i.jpg directly under the base directory was encoded
\* as JPEG from a 640x480 image, every closed internal_data_i/thumb.png as PNG
\* from a 100x100 image, and no file carries the encoding of the other format.
C9_EncodingFollowsName ==
  \A e \in fs :
    (e.kind = "file" /\ e.by >= 1 /\ e.path \notin open) =>
      /\ Suffix(e.path) = <<".", "jpg">> =>
           e.enc = "jpeg" /\ e.w = 640 /\ e.h = 480 /\ DirectlyUnder(BaseDir, e.path)
      /\ Suffix(e.path) = <<".", "png">> =>
           e.enc = "png" /\ e.w = 100 /\ e.h = 100 /\ ~DirectlyUnder(BaseDir, e.path)
      /\ e.enc = "jpeg" => Suffix(e.path) = <<".", "jpg">>
      /\ e.enc = "png" => Suffix(e.path) = <<".", "png">>

\* a finished run that wrote a photo and a thumbnail completely
C9_Witness ==
  /\ pc = "exited" /\ err = "nil"
  /\ \E e \in fs : e.by = run /\ e.path = PhotoPath(0) /\ e.complete
  /\ \E e \in fs : e.by = run /\ e.path = ThumbPath(1) /\ e.complete

\* --------------------------------------------------------------------- C10
MaxIndex == MaxText + MaxCsv + MaxImage + MaxSubDirs

\* 0 removal, 1 base directory, 2 text, 3 CSV, 4 image, 5 subdirectories
Phase(o) ==
  CASE o.op = "RemoveAll" -> 0
    [] o.op = "MkdirAll" /\ o.path = BaseDir -> 1
    [] o.op = "WriteFile" /\ o.path[Len(BaseDir) + 2] = "document_" -> 2
    [] o.op = "Create" /\ o.path[Len(BaseDir) + 2] = "transactions_" -> 3
    [] o.op = "Create" /\ o.path[Len(BaseDir) + 2] = "photo_" -> 4
    [] OTHER -> 5

\* the loop index in the name of the entry a call is made for
Idx(o) ==
  CHOOSE k \in 0..MaxIndex : ToString(k) = o.path[Len(BaseDir) + 3]

\* within a subdirectory: 0 its creation, 1 secret_note.md, 2 thumb.png
Step(o) ==
  CASE o.op = "MkdirAll" /\ Len(o.path) = Len(BaseDir) + 3 -> 0
    [] o.op = "WriteFile" /\ Suffix(o.path) = <<".", "md">> -> 1
    [] o.op = "Create" /\ Suffix(o.path) = <<".", "png">> -> 2

\* call o may directly follow call q, both after the removal
MayFollow(q, o) ==
  CASE Phase(o) = 1 -> FALSE
    [] Phase(o) \in {2, 3, 4} ->
         IF Phase(q) = Phase(o) THEN Idx(o) = Idx(q) + 1
         ELSE Phase(q) < Phase(o) /\ Idx(o) = 0
    [] Phase(o) = 5 ->
         IF Phase(q) = 5
         THEN \/ Step(o) = 0 /\ Step(q) = 2 /\ Idx(o) = Idx(q) + 1
              \/ Step(o) = 1 /\ Step(q) = 0 /\ Idx(o) = Idx(q)
              \/ Step(o) = 2 /\ Step(q) = 1 /\ Idx(o) = Idx(q)
         ELSE Step(o) = 0 /\ Idx(o) = 0

\* C10: the calls of one run are in a fixed linear order: removal, then
\* creation of the base directory, then the text files by index, the CSV
\* files, the image files, then per subdirectory by index its creation, its
\* secret_note.md and its thumb.png; no top-level file follows a subdirectory;
\* the run ends with nil or with the error of the directory call made last.
C10_LinearOrder ==
  run > 0 =>
    /\ \A a \in 1..Len(ops) :
         /\ a = 1 <=> Phase(ops[a]) = 0
         /\ a = 2 <=> Phase(ops[a]) = 1
         /\ a > 2 => MayFollow(ops[a - 1], ops[a])
    /\ Returned =>
         \/ err = "nil" /\ Len(ops) = 2 + Total(cfg) + 3 * cfg.SubDirs
         \/ err # "nil" /\ Last(ops).op \in {"RemoveAll", "MkdirAll"}

\* a run through every phase, with two text files and two subdirectories
C10_Witness ==
  /\ ReturnedNil
  /\ cfg.TextFiles = 2 /\ cfg.CsvFiles = 1 /\ cfg.ImageFiles = 1 /\ cfg.SubDirs = 2
  /\ Len(ops) = 12
  /\ Last(ops) = Op("Create", ThumbPath(1))
====
